---- MODULE Spec2Model ----
(***************************************************************************)
(* Raja-Mantri game backend (src/main.py): the in-memory room and player   *)
(* tables and the eight request handlers, one action per handler.  A       *)
(* handler runs to completion in one step; the response it returns, or the *)
(* HTTPException it raises, is kept in `last`.  The handlers are plain     *)
(* `def` functions, which FastAPI runs on worker threads: SpecThreads lets  *)
(* two threads run join_room and mantri_guess in two steps each, the       *)
(* checks and then the writes.                                             *)
(***************************************************************************)
EXTENDS Integers, Sequences, FiniteSets, TLC

\* ---------------------------------------------------------------- bounds
\* new_id() hands out the ids 1..MaxIds; a handler that needs a fresh id is
\* not taken once the pool is used up.
MaxIds == 5

\* display names a request may carry
Names == {"asha"}

\* ------------------------------------------------------------- constants
\* roles = ["Raja", "Mantri", "Chor", "Sipahi"]          (main.py:100)
ROLES == <<"Raja", "Mantri", "Chor", "Sipahi">>

RoleSet == {ROLES[i] : i \in 1..Len(ROLES)}

\* BASE_POINTS                                           (main.py:133)
BASE_POINTS == [Raja |-> 1000, Mantri |-> 800, Sipahi |-> 500, Chor |-> 0]

\* capacity of a room, the literal 4 of main.py:56 and main.py:96
ROOM_SIZE == 4

VARIABLES
    rooms,    \* roomId -> dict with players, status and, later, roles,
              \* mantriId, guess, scores, leaderboard      (main.py:9)
    players,  \* playerId -> [name, roomId, totalScore]    (main.py:10)
    nextId,   \* the next id new_id() hands out            (main.py:13)
    last,     \* the handler called last and what it answered
    inflight  \* worker thread -> the request it is in the middle of

vars == <<rooms, players, nextId, last, inflight>>

\* ------------------------------------------------------------- helpers
\* d[k] = v on a Python dict: insert or overwrite
DictSet(d, k, v) == (k :> v) @@ d

\* d.get(k, default)
DictGet(d, k, default) == IF k \in DOMAIN d THEN d[k] ELSE default

Range(s) == {s[i] : i \in DOMAIN s}

\* no check of a handler failed
NoError == [status |-> 200, detail |-> ""]

\* HTTPException(status_code=..., detail=...)
Error(status_code, detail) == [status |-> status_code, detail |-> detail]

\* raise: the handler stops before it wrote anything
Raise(op, err) ==
    /\ last' = [op |-> op, status |-> err.status, detail |-> err.detail]
    /\ UNCHANGED <<rooms, players, nextId>>

\* the body a handler returns
Returned(op, body) == [op |-> op, status |-> 200, body |-> body]

\* a handler that returns without writing
Reply(op, body) ==
    /\ last' = Returned(op, body)
    /\ UNCHANGED <<rooms, players, nextId>>

\* the worker threads that run the handlers; no lock is taken anywhere
Threads == {1, 2}

\* a thread between two requests
Idle == [pc |-> "idle"]

\* an id new_id() has not handed out: what a caller who makes an id up sends
NoSuchId == nextId

\* the room ids and player ids a request may carry
RoomArgs == DOMAIN rooms \cup {NoSuchId}

PlayerArgs(roomId) ==
    (IF roomId \in DOMAIN rooms THEN Range(rooms[roomId].players) ELSE {})
    \cup {NoSuchId}

Init ==
    /\ rooms = <<>>
    /\ players = <<>>
    /\ nextId = 1
    /\ last = Returned("start", <<>>)
    /\ inflight = [t \in Threads |-> Idle]

\* ---------------------------------------------------------------- GET /
home == Reply("home", [message |-> "Game backend running (step 1)!"])

\* ------------------------------------------------------ POST /room/create
create_room(name) ==
    /\ nextId + 1 <= MaxIds
    /\ LET room_id == nextId
           player_id == nextId + 1
       IN /\ rooms' = DictSet(rooms, room_id,
                        [players |-> <<player_id>>, status |-> "waiting"])
          /\ players' = DictSet(players, player_id,
                        [name |-> name, roomId |-> room_id, totalScore |-> 0])
          /\ nextId' = nextId + 2
          /\ last' = Returned("create",
                        [roomId |-> room_id, playerId |-> player_id,
                         message |-> "Room created. Waiting for players (1/4)."])

\* -------------------------------------------------------- POST /room/join
\* room["status"] != "waiting"                            (main.py:53)
JoinNotWaiting_off(room) == FALSE

JoinNotWaiting(room) == room.status # "waiting"

\* len(room["players"]) >= 4                              (main.py:56)
JoinFull(room) == Len(room.players) >= ROOM_SIZE

\* the checks of join_room, in order                      (main.py:49-57)
JoinError(roomId) ==
    IF roomId \notin DOMAIN rooms THEN Error(404, "Room not found")
    ELSE IF JoinNotWaiting(rooms[roomId])
    THEN Error(400, "Room not accepting joins right now")
    ELSE IF JoinFull(rooms[roomId])
    THEN Error(400, "Room is full (4 players max)")
    ELSE NoError

\* room["players"].append(player_id)                      (main.py:60)
JoinRoster_replace(roster, player_id) == <<player_id>>

JoinRoster(roster, player_id) == Append(roster, player_id)

JoinedMessage(n) == "Joined room (" \o ToString(n) \o "/4)."

join_room_append_first(roomId, name) ==
    IF roomId \notin DOMAIN rooms
    THEN Raise("join", JoinError(roomId))
    ELSE IF JoinError(roomId) # NoError
    THEN /\ rooms' = [rooms EXCEPT ![roomId].players = Append(@, NoSuchId)]
         /\ last' = [op |-> "join", status |-> JoinError(roomId).status,
                     detail |-> JoinError(roomId).detail]
         /\ UNCHANGED <<players, nextId>>
    ELSE /\ nextId <= MaxIds
         /\ LET player_id == nextId
                roster == JoinRoster(rooms[roomId].players, player_id)
            IN /\ rooms' = [rooms EXCEPT ![roomId].players = roster]
               /\ players' = DictSet(players, player_id,
                               [name |-> name, roomId |-> roomId,
                                totalScore |-> 0])
               /\ nextId' = nextId + 1
               /\ last' = Returned("join",
                             [roomId |-> roomId, playerId |-> player_id,
                              message |-> JoinedMessage(Len(roster))])

join_room_shared_roster(roomId, name) ==
    IF JoinError(roomId) # NoError
    THEN Raise("join", JoinError(roomId))
    ELSE /\ nextId <= MaxIds
         /\ LET player_id == nextId
                roster == JoinRoster(rooms[roomId].players, player_id)
            IN /\ rooms' = [r \in DOMAIN rooms |->
                              [rooms[r] EXCEPT !.players =
                                  JoinRoster(@, player_id)]]
               /\ players' = DictSet(players, player_id,
                               [name |-> name, roomId |-> roomId,
                                totalScore |-> 0])
               /\ nextId' = nextId + 1
               /\ last' = Returned("join",
                             [roomId |-> roomId, playerId |-> player_id,
                              message |-> JoinedMessage(Len(roster))])

join_room(roomId, name) ==
    IF JoinError(roomId) # NoError
    THEN Raise("join", JoinError(roomId))
    ELSE /\ nextId <= MaxIds
         /\ LET player_id == nextId
                roster == JoinRoster(rooms[roomId].players, player_id)
            IN /\ rooms' = [rooms EXCEPT ![roomId].players = roster]
               /\ players' = DictSet(players, player_id,
                               [name |-> name, roomId |-> roomId,
                                totalScore |-> 0])
               /\ nextId' = nextId + 1
               /\ last' = Returned("join",
                             [roomId |-> roomId, playerId |-> player_id,
                              message |-> JoinedMessage(Len(roster))])

\* ----------------------------------------- GET /room/players/{roomId}
get_players(roomId) ==
    IF roomId \notin DOMAIN rooms
    THEN Raise("players", Error(404, "Room not found"))
    ELSE LET room == rooms[roomId]
             players_list == [i \in DOMAIN room.players |->
                                [playerId |-> room.players[i],
                                 name |-> players[room.players[i]].name]]
         IN Reply("players", [roomId |-> roomId, players |-> players_list])

\* ------------------------------------------ POST /room/assign/{roomId}
\* len(room["players"]) != 4                              (main.py:96)
AssignWrongSize_over(room) == Len(room.players) > ROOM_SIZE

AssignWrongSize(room) == Len(room.players) # ROOM_SIZE

\* the checks of assign_roles, in order                   (main.py:91-97)
AssignError(roomId) ==
    IF roomId \notin DOMAIN rooms THEN Error(404, "Room not found")
    ELSE IF AssignWrongSize(rooms[roomId])
    THEN Error(400, "Need exactly 4 players to assign roles")
    ELSE NoError

\* random.shuffle(roles): every ordering of the four roles (main.py:101)
Shuffles_choices == [1..Len(ROLES) -> RoleSet]

Shuffles ==
    {s \in [1..Len(ROLES) -> RoleSet] :
        \A i, j \in 1..Len(ROLES) : s[i] = s[j] => i = j}

\* for i, pid in enumerate(room["players"]): room_roles[pid] = roles[i]
RoomRoles(roster, roles) ==
    [pid \in Range(roster) |->
        roles[CHOOSE i \in DOMAIN roster :
                 /\ roster[i] = pid
                 /\ \A j \in DOMAIN roster : roster[j] = pid => j <= i]]

\* the pids that next(pid for pid, role in d.items() if role == r) can see
Holders(room_roles, role) ==
    {pid \in DOMAIN room_roles : room_roles[pid] = role}

\* next(...) over a dict filled in roster order: the first holder in that order
FirstHolder_first(roster, room_roles, role) == roster[1]

FirstHolder(roster, room_roles, role) ==
    roster[CHOOSE i \in DOMAIN roster :
              /\ roster[i] \in Holders(room_roles, role)
              /\ \A j \in DOMAIN roster :
                    roster[j] \in Holders(room_roles, role) => i <= j]

assign_roles(roomId) ==
    IF AssignError(roomId) # NoError
    THEN Raise("assign", AssignError(roomId))
    ELSE \E roles \in Shuffles :
         LET room == rooms[roomId]
             room_roles == RoomRoles(room.players, roles)
             withRoles == DictSet(room, "roles", room_roles)
         IN IF Holders(room_roles, "Mantri") = {}
            THEN \* next() raises StopIteration after line 108 has written
                 /\ rooms' = [rooms EXCEPT ![roomId] = withRoles]
                 /\ last' = [op |-> "assign", status |-> 500,
                             detail |-> "StopIteration"]
                 /\ UNCHANGED <<players, nextId>>
            ELSE LET mantri_id ==
                         FirstHolder(room.players, room_roles, "Mantri")
                 IN /\ rooms' = [rooms EXCEPT ![roomId] =
                            DictSet(withRoles, "mantriId", mantri_id)]
                    /\ last' = Returned("assign",
                         [roomId |-> roomId, rolesAssigned |-> TRUE,
                          message |-> "Roles assigned. Each player can now view their role privately."])
                    /\ UNCHANGED <<players, nextId>>

\* ------------------------------------ GET /role/me/{roomId}/{playerId}
\* what get_my_role answers; rooms[roomId]["roles"] raises KeyError while the
\* room has no "roles" key                                (main.py:122-131)
RoleAnswer(roomId, playerId) ==
    IF roomId \notin DOMAIN rooms
    THEN Returned("role", [error |-> "Room not found"])
    ELSE IF "roles" \notin DOMAIN rooms[roomId]
    THEN [op |-> "role", status |-> 500, detail |-> "KeyError"]
    ELSE IF playerId \notin DOMAIN rooms[roomId].roles
    THEN Returned("role", [error |-> "Player not found"])
    ELSE Returned("role", [playerId |-> playerId,
                           role |-> rooms[roomId].roles[playerId]])

get_my_role(roomId, playerId) ==
    /\ last' = RoleAnswer(roomId, playerId)
    /\ UNCHANGED <<rooms, players, nextId>>

\* ------------------------------------------------ POST /guess/{roomId}
\* "roles" not in room or not room["roles"]               (main.py:148)
GuessNoRoles(room) == "roles" \notin DOMAIN room \/ DOMAIN room.roles = {}

\* mantriId or targetId not in room["players"]            (main.py:150)
GuessBadPlayer(room, mantriId, targetId) ==
    mantriId \notin Range(room.players) \/ targetId \notin Range(room.players)

\* "mantriId" not in room or room["mantriId"] != payload.mantriId (main.py:152)
GuessNotMantri(room, mantriId) ==
    "mantriId" \notin DOMAIN room \/ room.mantriId # mantriId

\* room.get("status") == "finished"                       (main.py:154)
GuessFinished_off(room) == FALSE

GuessFinished(room) == DictGet(room, "status", "") = "finished"

\* the validations of mantri_guess, in order              (main.py:145-155)
GuessError(roomId, mantriId, targetId) ==
    IF roomId \notin DOMAIN rooms THEN Error(404, "Room not found")
    ELSE IF GuessNoRoles(rooms[roomId])
    THEN Error(400, "Roles not assigned yet")
    ELSE IF GuessBadPlayer(rooms[roomId], mantriId, targetId)
    THEN Error(404, "Invalid player id(s)")
    ELSE IF GuessNotMantri(rooms[roomId], mantriId)
    THEN Error(403, "Only the Mantri can submit a guess")
    ELSE IF GuessFinished(rooms[roomId])
    THEN Error(400, "Round already finished")
    ELSE NoError

\* round_scores = { pid: BASE_POINTS[role] ... }          (main.py:161)
BaseScores(room_roles) ==
    [pid \in DOMAIN room_roles |-> BASE_POINTS[room_roles[pid]]]

\* the incorrect-guess branch                             (main.py:167-169)
Steal_keep(round_scores, real_chor, mantriId) ==
    [round_scores EXCEPT ![real_chor] = @ + BASE_POINTS["Mantri"]]

Steal(round_scores, real_chor, mantriId) ==
    LET stolen == BASE_POINTS["Mantri"]
        bumped == [round_scores EXCEPT ![real_chor] = @ + stolen]
    IN DictSet(bumped, mantriId, 0)

\* payload.targetId == real_chor                          (main.py:163)
GuessedRight_flipped(real_chor, targetId) == targetId # real_chor

GuessedRight(real_chor, targetId) == targetId = real_chor

\* round scores of a guess                                (main.py:161-170)
RoundScores(room_roles, real_chor, mantriId, targetId) ==
    IF GuessedRight(real_chor, targetId)
    THEN BaseScores(room_roles)
    ELSE Steal(BaseScores(room_roles), real_chor, mantriId)

GuessMessage(real_chor, targetId) ==
    IF GuessedRight(real_chor, targetId)
    THEN "Mantri guessed correctly. No points transfer."
    ELSE "Mantri guessed incorrectly. Chor stole Mantri's points."

\* players[pid]["totalScore"] = players.get(pid, {}).get("totalScore", 0) + pts
AddTotals_skip(table, round_scores) == table

AddTotals(table, round_scores) ==
    [pid \in DOMAIN table |->
        IF pid \in DOMAIN round_scores
        THEN [table[pid] EXCEPT !.totalScore =
                 DictGet(DictGet(table, pid, <<>>), "totalScore", 0)
                 + round_scores[pid]]
        ELSE table[pid]]

\* room.setdefault("leaderboard", {});
\* room["leaderboard"][pid] = room["leaderboard"].get(pid, 0) + pts
AddLeaderboard_skip(room, round_scores) ==
    DictGet(room, "leaderboard", <<>>)

AddLeaderboard(room, round_scores) ==
    LET board == DictGet(room, "leaderboard", <<>>)
    IN [pid \in DOMAIN board \cup DOMAIN round_scores |->
          IF pid \in DOMAIN round_scores
          THEN DictGet(board, pid, 0) + round_scores[pid]
          ELSE board[pid]]

mantri_guess(roomId, mantriId, targetId) ==
    IF GuessError(roomId, mantriId, targetId) # NoError
    THEN Raise("guess", GuessError(roomId, mantriId, targetId))
    ELSE LET room == rooms[roomId] IN
         IF Holders(room.roles, "Chor") = {}
         THEN Raise("guess", Error(500, "StopIteration"))
         ELSE LET real_chor == FirstHolder(room.players, room.roles, "Chor")
                  round_scores ==
                      RoundScores(room.roles, real_chor, mantriId, targetId)
                  msg == GuessMessage(real_chor, targetId)
                  saved ==
                      DictSet(DictSet(DictSet(room,
                          "guess", [by |-> mantriId, target |-> targetId]),
                          "scores", round_scores),
                          "status", "finished")
              IN /\ rooms' = [rooms EXCEPT ![roomId] =
                        DictSet(saved, "leaderboard",
                                AddLeaderboard(saved, round_scores))]
                 /\ players' = AddTotals(players, round_scores)
                 /\ last' = Returned("guess",
                               [roomId |-> roomId, message |-> msg,
                                roundScores |-> round_scores])
                 /\ UNCHANGED nextId

\* ----------------------------------------------- GET /result/{roomId}
\* the checks of get_result, in order                     (main.py:188-192)
ResultError_nocheck(roomId) ==
    IF roomId \notin DOMAIN rooms THEN Error(404, "Room not found")
    ELSE NoError

ResultError(roomId) ==
    IF roomId \notin DOMAIN rooms THEN Error(404, "Room not found")
    ELSE IF DictGet(rooms[roomId], "status", "") # "finished"
    THEN Error(400, "Round not finished yet")
    ELSE NoError

get_result(roomId) ==
    IF ResultError(roomId) # NoError
    THEN Raise("result", ResultError(roomId))
    ELSE LET room == rooms[roomId]
         IN Reply("result", [roomId |-> roomId,
                             roles |-> DictGet(room, "roles", <<>>),
                             guess |-> DictGet(room, "guess", <<>>),
                             roundScores |-> DictGet(room, "scores", <<>>),
                             leaderboard |-> DictGet(room, "leaderboard", <<>>)])

\* one request after the other: each handler runs from its first line to
\* its return on one thread while the other threads are between requests
Next ==
    \/ home /\ UNCHANGED inflight
    \/ \E name \in Names : create_room(name) /\ UNCHANGED inflight
    \/ \E roomId \in RoomArgs, name \in Names :
          join_room(roomId, name) /\ UNCHANGED inflight
    \/ \E roomId \in RoomArgs : get_players(roomId) /\ UNCHANGED inflight
    \/ \E roomId \in RoomArgs : assign_roles(roomId) /\ UNCHANGED inflight
    \/ \E roomId \in RoomArgs :
          \E playerId \in PlayerArgs(roomId) :
             get_my_role(roomId, playerId) /\ UNCHANGED inflight
    \/ \E roomId \in RoomArgs :
          \E mantriId \in PlayerArgs(roomId), targetId \in PlayerArgs(roomId) :
             mantri_guess(roomId, mantriId, targetId) /\ UNCHANGED inflight
    \/ \E roomId \in RoomArgs : get_result(roomId) /\ UNCHANGED inflight

Spec == Init /\ [][Next]_vars

\* ------------------------------------------------ a second room present
\* The server after create_room, create_room, join_room, join_room: a room
\* with three players beside a room with its creator.  Their six ids lie
\* outside the pool, of which two ids are left: one more join fills the
\* first room, whose round is then played beside the second room.
InitTwoRooms ==
    /\ rooms = (-5 :> [players |-> <<-4, -3, -2>>, status |-> "waiting"])
               @@ (-1 :> [players |-> <<0>>, status |-> "waiting"])
    /\ players = [p \in {-4, -3, -2, 0} |->
                    [name |-> "asha", roomId |-> IF p = 0 THEN -1 ELSE -5,
                     totalScore |-> 0]]
    /\ nextId = MaxIds - 1
    /\ last = Returned("join",
                 [roomId |-> -5, playerId |-> -2,
                  message |-> JoinedMessage(3)])
    /\ inflight = [t \in Threads |-> Idle]

\* the handlers that write the tables
NextTwoRooms ==
    \/ \E name \in Names : create_room(name) /\ UNCHANGED inflight
    \/ \E roomId \in RoomArgs, name \in Names :
          join_room(roomId, name) /\ UNCHANGED inflight
    \/ \E roomId \in RoomArgs : assign_roles(roomId) /\ UNCHANGED inflight
    \/ \E roomId \in RoomArgs :
          \E mantriId \in PlayerArgs(roomId), targetId \in PlayerArgs(roomId) :
             mantri_guess(roomId, mantriId, targetId) /\ UNCHANGED inflight

SpecTwoRooms == InitTwoRooms /\ [][NextTwoRooms]_vars

\* ------------------------------------------------ two worker threads
\* The server after create_room, join_room, join_room: one room with three
\* players, their ids outside the pool, of which two ids are left.
InitThreads ==
    /\ rooms = (-3 :> [players |-> <<-2, -1, 0>>, status |-> "waiting"])
    /\ players = [p \in {-2, -1, 0} |->
                    [name |-> "asha", roomId |-> -3, totalScore |-> 0]]
    /\ nextId = MaxIds - 1
    /\ last = Returned("join",
                 [roomId |-> -3, playerId |-> 0,
                  message |-> JoinedMessage(3)])
    /\ inflight = [t \in Threads |-> Idle]

\* no request is in the middle of its handler
AllIdle == \A t \in Threads : inflight[t] = Idle

\* join_room on thread t up to its last check            (main.py:49-57)
join_room_check(t, roomId, name) ==
    /\ inflight[t] = Idle
    /\ IF JoinError(roomId) # NoError
       THEN Raise("join", JoinError(roomId)) /\ UNCHANGED inflight
       ELSE /\ nextId <= MaxIds
            /\ inflight' = [inflight EXCEPT ![t] =
                               [pc |-> "join", roomId |-> roomId,
                                name |-> name]]
            /\ UNCHANGED <<rooms, players, nextId, last>>

\* the rest of join_room on thread t: new_id, append, players entry, return
\*                                                        (main.py:59-67)
join_room_write(t) ==
    /\ inflight[t].pc = "join"
    /\ nextId <= MaxIds
    /\ LET roomId == inflight[t].roomId
           player_id == nextId
           roster == JoinRoster(rooms[roomId].players, player_id)
       IN /\ rooms' = [rooms EXCEPT ![roomId].players = roster]
          /\ players' = DictSet(players, player_id,
                          [name |-> inflight[t].name, roomId |-> roomId,
                           totalScore |-> 0])
          /\ nextId' = nextId + 1
          /\ last' = Returned("join",
                        [roomId |-> roomId, playerId |-> player_id,
                         message |-> JoinedMessage(Len(roster))])
    /\ inflight' = [inflight EXCEPT ![t] = Idle]

\* mantri_guess on thread t up to its last validation    (main.py:145-155)
mantri_guess_check(t, roomId, mantriId, targetId) ==
    /\ inflight[t] = Idle
    /\ IF GuessError(roomId, mantriId, targetId) # NoError
       THEN Raise("guess", GuessError(roomId, mantriId, targetId))
            /\ UNCHANGED inflight
       ELSE /\ inflight' = [inflight EXCEPT ![t] =
                               [pc |-> "guess", roomId |-> roomId,
                                mantriId |-> mantriId,
                                targetId |-> targetId]]
            /\ UNCHANGED <<rooms, players, nextId, last>>

\* the rest of mantri_guess on thread t: scoring, save, totals, leaderboard
\*                                                        (main.py:157-184)
mantri_guess_commit(t) ==
    /\ inflight[t].pc = "guess"
    /\ LET roomId == inflight[t].roomId
           mantriId == inflight[t].mantriId
           targetId == inflight[t].targetId
           room == rooms[roomId]
           real_chor == FirstHolder(room.players, room.roles, "Chor")
           round_scores ==
               RoundScores(room.roles, real_chor, mantriId, targetId)
           saved ==
               DictSet(DictSet(DictSet(room,
                   "guess", [by |-> mantriId, target |-> targetId]),
                   "scores", round_scores),
                   "status", "finished")
       IN /\ rooms' = [rooms EXCEPT ![roomId] =
                 DictSet(saved, "leaderboard",
                         AddLeaderboard(saved, round_scores))]
          /\ players' = AddTotals(players, round_scores)
          /\ last' = Returned("guess",
                        [roomId |-> roomId,
                         message |-> GuessMessage(real_chor, targetId),
                         roundScores |-> round_scores])
          /\ UNCHANGED nextId
    /\ inflight' = [inflight EXCEPT ![t] = Idle]

\* join and guess requests on both threads at once, their steps interleaved
\* in any order; assign_roles runs between them, while no request is in the
\* middle of its handler
NextThreads ==
    \/ \E t \in Threads, roomId \in RoomArgs, name \in Names :
          join_room_check(t, roomId, name)
    \/ \E t \in Threads : join_room_write(t)
    \/ \E roomId \in RoomArgs :
          AllIdle /\ assign_roles(roomId) /\ UNCHANGED inflight
    \/ \E t \in Threads, roomId \in RoomArgs :
          \E mantriId \in PlayerArgs(roomId), targetId \in PlayerArgs(roomId) :
             mantri_guess_check(t, roomId, mantriId, targetId)
    \/ \E t \in Threads : mantri_guess_commit(t)

SpecThreads == InitThreads /\ [][NextThreads]_vars

\* ======================================================== properties
HasRoles(r) == r \in DOMAIN rooms /\ "roles" \in DOMAIN rooms[r]

Finished(r) == r \in DOMAIN rooms /\ rooms[r].status = "finished"

\* the step is a call of handler op on room r that returned normally
\* (a body that carries roomId: join, assign, guess, result)
Succeeded(op, r) ==
    /\ last'.op = op
    /\ last'.status = 200
    /\ last'.body.roomId = r

\* the failure kinds of the error taxonomy, as the handlers report them
NotFound(err) == err.status = 404

Forbidden(err) == err.status = 403

Full(err) == err.status = 400 /\ err.detail = "Room is full (4 players max)"

InvalidState(err) == err.status = 400 /\ ~Full(err)

IsPrefix(s, t) == Len(s) <= Len(t) /\ \A i \in DOMAIN s : s[i] = t[i]

RECURSIVE SumOver(_, _)
SumOver(f, S) ==
    IF S = {} THEN 0
    ELSE LET x == CHOOSE y \in S : TRUE IN f[x] + SumOver(f, S \ {x})

\* --------------------------------------------------------------- C1
\* C1: a room's status only moves waiting -> assigned -> finished: a
\* successful assignRoles on a waiting room sets it to assigned, a successful
\* submitGuess moves it from assigned to finished, and no step moves it
\* backward or from waiting straight to finished.
C1_StatusLifecycle ==
    [][\A r \in DOMAIN rooms :
         LET before == rooms[r].status
             after == rooms'[r].status
         IN /\ before # after =>
                  \/ before = "waiting" /\ after = "assigned"
                  \/ before = "assigned" /\ after = "finished"
            /\ Succeeded("assign", r) /\ before = "waiting"
                  => after = "assigned"
            /\ Succeeded("guess", r)
                  => before = "assigned" /\ after = "finished"]_vars

\* --------------------------------------------------------------- C2
\* C2: once a room has a role map, every later assignRoles call on it fails
\* and the stored role map and recorded accuser stay as they were.
C2_AssignOnce ==
    [][\A r \in DOMAIN rooms :
         HasRoles(r) =>
            /\ ~Succeeded("assign", r)
            /\ rooms'[r].roles = rooms[r].roles
            /\ rooms'[r].mantriId = rooms[r].mantriId]_vars

\* --------------------------------------------------------------- C3
\* C3: whenever a room has a role map, the map is a bijection from exactly
\* the room's current roster, which has 4 players, onto the four roles; so
\* no join has added a player after the roles were assigned.
C3_RolesBijection ==
    \A r \in DOMAIN rooms :
       HasRoles(r) =>
          LET roster == rooms[r].players
              roles == rooms[r].roles
          IN /\ Len(roster) = 4
             /\ Cardinality(Range(roster)) = 4
             /\ DOMAIN roles = Range(roster)
             /\ {roles[p] : p \in DOMAIN roles}
                   = {"Raja", "Mantri", "Chor", "Sipahi"}
             /\ \A p, q \in DOMAIN roles : roles[p] = roles[q] => p = q

\* a join was tried on a room whose roles are assigned, and was turned away
C3_Witness ==
    /\ \E r \in DOMAIN rooms : HasRoles(r)
    /\ last.op = "join"
    /\ last.status = 400

\* --------------------------------------------------------------- C4
Roster(r) == Range(rooms[r].players)

\* a submitGuess has succeeded on room r: its guess record is stored
Guessed(r) == r \in DOMAIN rooms /\ "guess" \in DOMAIN rooms[r]

\* no step from here is a successful submitGuess on r, and the stored guess
\* record and round scores stay as they are
GuessKept(r) ==
    /\ ~Succeeded("guess", r)
    /\ rooms'[r].guess = rooms[r].guess
    /\ rooms'[r].scores = rooms[r].scores

\* C4 as stated: after a successful submitGuess, every further submitGuess on
\* the room, with any accuserId and targetId, fails with InvalidState, and
\* the stored guess and round scores remain those of the first call.
C4_SecondGuessInvalidState ==
    [][\A r \in DOMAIN rooms :
         Guessed(r) =>
            /\ \A m \in PlayerArgs(r), t \in PlayerArgs(r) :
                  InvalidState(GuessError(r, m, t))
            /\ GuessKept(r)]_vars

\* C4 as amended: after a successful submitGuess, every further submitGuess
\* on the room fails: with InvalidState when accuserId is the recorded
\* accuser and targetId is in the roster, with NotFound when accuserId or
\* targetId is not in the roster, with Forbidden when both are in the roster
\* and accuserId is not the recorded accuser; the stored guess and round
\* scores remain those of the first call.
C4_GuessOnce ==
    /\ [](\A r \in DOMAIN rooms :
            Guessed(r) =>
               \A m \in PlayerArgs(r), t \in PlayerArgs(r) :
                  LET e == GuessError(r, m, t)
                      members == m \in Roster(r) /\ t \in Roster(r)
                  IN /\ e # NoError
                     /\ ~members => NotFound(e)
                     /\ members /\ m # rooms[r].mantriId => Forbidden(e)
                     /\ members /\ m = rooms[r].mantriId => InvalidState(e))
    /\ [][\A r \in DOMAIN rooms : Guessed(r) => GuessKept(r)]_vars

\* a second submitGuess by the accuser was turned away as already finished
C4_Witness ==
    /\ \E r \in DOMAIN rooms : Guessed(r)
    /\ last.op = "guess"
    /\ last.status = 400
    /\ last.detail = "Round already finished"

\* --------------------------------------------------------------- C5
\* C5: a successful submitGuess gives these round scores: when the target
\* holds Chor, Raja 1000, Mantri 800, Sipahi 500, Chor 0 and the outcome is
\* reported correct; otherwise Chor 800, Mantri 0, Raja 1000, Sipahi 500 and
\* the outcome is reported incorrect.
C5_RoundScores ==
    last.op = "guess" /\ last.status = 200 =>
       LET r == last.body.roomId
           roles == rooms[r].roles
           target == rooms[r].guess.target
           scores == last.body.roundScores
           of(role) == scores[CHOOSE p \in DOMAIN roles : roles[p] = role]
       IN /\ rooms[r].scores = scores
          /\ DOMAIN scores = Roster(r)
          /\ target \in Roster(r)
          /\ IF roles[target] = "Chor"
             THEN /\ of("Raja") = 1000 /\ of("Mantri") = 800
                  /\ of("Sipahi") = 500 /\ of("Chor") = 0
                  /\ last.body.message
                        = "Mantri guessed correctly. No points transfer."
             ELSE /\ of("Raja") = 1000 /\ of("Mantri") = 0
                  /\ of("Sipahi") = 500 /\ of("Chor") = 800
                  /\ last.body.message
                        = "Mantri guessed incorrectly. Chor stole Mantri's points."

\* a submitGuess that named the Raja holder has just succeeded
C5_Witness ==
    /\ last.op = "guess"
    /\ last.status = 200
    /\ LET room == rooms[last.body.roomId]
       IN room.roles[room.guess.target] = "Raja"

\* --------------------------------------------------------------- C6
\* C6: in every finished room the round scores of the 4 players sum to 2300.
C6_ScoreSum ==
    \A r \in DOMAIN rooms :
       Finished(r) =>
          /\ DOMAIN rooms[r].scores = Roster(r)
          /\ Cardinality(Roster(r)) = 4
          /\ SumOver(rooms[r].scores, Roster(r)) = 2300

\* a room finished by an incorrect guess: the accuser's round score is 0
C6_Witness ==
    \E r \in DOMAIN rooms :
       Finished(r) /\ rooms[r].scores[rooms[r].guess.by] = 0

\* --------------------------------------------------------------- C7
\* C7: a player's total is 0 while their room is not finished and their
\* round score once it is; it never decreases, and the only step that
\* changes it is the successful submitGuess of their own room, which adds
\* their round score.
C7_TotalScore ==
    /\ [](\A p \in DOMAIN players :
            players[p].totalScore =
               IF Finished(players[p].roomId)
               THEN rooms[players[p].roomId].scores[p] ELSE 0)
    /\ [][\A p \in DOMAIN players :
            /\ players'[p].totalScore >= players[p].totalScore
            /\ players'[p].totalScore # players[p].totalScore =>
                  /\ Succeeded("guess", players[p].roomId)
                  /\ players'[p].totalScore = players[p].totalScore
                        + last'.body.roundScores[p]]_vars

\* a finished room was read again and a player still holds a stolen 800
C7_Witness ==
    /\ last.op = "result"
    /\ last.status = 200
    /\ \E p \in DOMAIN players :
          /\ players[p].totalScore = 800
          /\ rooms[players[p].roomId].scores[rooms[players[p].roomId].guess.by] = 0

\* --------------------------------------------------------------- C8
\* C8: every room's roster has between 1 and 4 players, no room disappears,
\* and no step removes a player from a roster or shortens it.
C8_Roster ==
    /\ [](\A r \in DOMAIN rooms : Len(rooms[r].players) \in 1..4)
    /\ [][\A r \in DOMAIN rooms :
            /\ r \in DOMAIN rooms'
            /\ IsPrefix(rooms[r].players, rooms'[r].players)]_vars

\* a join on a room of 4 was turned away as full
C8_Witness ==
    /\ \E r \in DOMAIN rooms : Len(rooms[r].players) = 4
    /\ last.op = "join"
    /\ Full(last)

\* --------------------------------------------------------------- C9
\* C9: join on an existing room fails with InvalidState when the room is not
\* waiting and with Full when it is waiting and has 4 players; a join that
\* fails leaves the rosters and the player table unchanged.
C9_JoinRejected ==
    /\ [](\A r \in DOMAIN rooms :
            /\ rooms[r].status # "waiting" => InvalidState(JoinError(r))
            /\ rooms[r].status = "waiting" /\ Len(rooms[r].players) = 4
                  => Full(JoinError(r)))
    /\ [][last'.op = "join" /\ last'.status # 200 =>
             rooms' = rooms /\ players' = players]_vars

\* a join on a finished room was turned away as not accepting joins
C9_Witness ==
    /\ \E r \in DOMAIN rooms : rooms[r].status # "waiting"
    /\ last.op = "join"
    /\ InvalidState(last)

\* -------------------------------------------------------------- C10
\* the failure kind of a submitGuess, by the first precondition it violates
GuessKindsByPriority ==
    \A r \in RoomArgs :
       \A m \in PlayerArgs(r), t \in PlayerArgs(r) :
          LET e == GuessError(r, m, t)
          IN IF r \notin DOMAIN rooms THEN NotFound(e)
             ELSE IF ~HasRoles(r) THEN InvalidState(e)
             ELSE IF m \notin Roster(r) \/ t \notin Roster(r) THEN NotFound(e)
             ELSE IF m # rooms[r].mantriId THEN Forbidden(e)
             ELSE IF Finished(r) THEN InvalidState(e)
             ELSE e = NoError

\* C10: submitGuess reports NotFound for an unknown room, InvalidState when
\* no roles are assigned, NotFound when accuserId or targetId is not in the
\* roster, Forbidden when accuserId is not the recorded accuser, InvalidState
\* when the room is finished, and succeeds otherwise; so the recorded
\* guess's accuser is always the room's recorded accuser.
C10_GuessFailureKinds ==
    [][/\ GuessKindsByPriority
       /\ \A r \in DOMAIN rooms' :
            "guess" \in DOMAIN rooms'[r] =>
               rooms'[r].guess.by = rooms'[r].mantriId]_vars

\* -------------------------------------------------------------- C11
\* the call just made failed: an HTTPException, an uncaught exception, or
\* the error payload get_my_role returns
CallFailed ==
    \/ last'.status # 200
    \/ last'.op = "role" /\ "error" \in DOMAIN last'.body

\* C11: a call that fails, whatever the handler and the failure kind, leaves
\* the rooms table and the player table exactly as they were.
C11_FailureWritesNothing ==
    [][CallFailed => rooms' = rooms /\ players' = players]_vars

\* a submitGuess by a roster member who is not the accuser was refused
C11_Witness ==
    /\ last.op = "guess"
    /\ Forbidden(last)
    /\ \E r \in DOMAIN rooms : HasRoles(r)

\* -------------------------------------------------------------- C12
\* C12: getResult on an existing room fails with InvalidState while no
\* submitGuess has succeeded on it; when it succeeds it returns the stored
\* roles, guess, round scores and leaderboard and changes nothing, so a
\* second getResult right after it returns the same data.
C12_ResultRead ==
    /\ [](\A r \in DOMAIN rooms :
            ~Guessed(r) => InvalidState(ResultError(r)))
    /\ [](last.op = "result" /\ last.status = 200 =>
            LET room == rooms[last.body.roomId]
            IN /\ Guessed(last.body.roomId)
               /\ last.body.roles = room.roles
               /\ last.body.guess = room.guess
               /\ last.body.roundScores = room.scores
               /\ last.body.leaderboard = room.leaderboard)
    /\ [][last'.op = "result" =>
            /\ rooms' = rooms
            /\ players' = players
            /\ (/\ last.op = "result" /\ last.status = 200
                /\ last'.status = 200
                /\ last'.body.roomId = last.body.roomId) => last' = last]_vars

\* getResult was refused on a room whose roles are assigned but not guessed
C12_Witness ==
    /\ last.op = "result"
    /\ InvalidState(last)
    /\ \E r \in DOMAIN rooms : HasRoles(r) /\ ~Guessed(r)

\* -------------------------------------------------------------- C13
\* C13: assignRoles on a room with 1, 2 or 3 players fails with InvalidState
\* and the room has no role map and no recorded accuser; submitGuess on such
\* a room fails with InvalidState, roles not being assigned.
C13_AssignNeedsFour ==
    /\ [](\A r \in DOMAIN rooms :
            Len(rooms[r].players) \in 1..3 =>
               /\ InvalidState(AssignError(r))
               /\ "roles" \notin DOMAIN rooms[r]
               /\ "mantriId" \notin DOMAIN rooms[r]
               /\ \A m \in PlayerArgs(r), t \in PlayerArgs(r) :
                     /\ InvalidState(GuessError(r, m, t))
                     /\ GuessError(r, m, t).detail = "Roles not assigned yet")
    /\ [][last'.op = "assign" /\ last'.status # 200 => rooms' = rooms]_vars

\* assignRoles was refused on a room of three
C13_Witness ==
    /\ last.op = "assign"
    /\ InvalidState(last)
    /\ \E r \in DOMAIN rooms : Len(rooms[r].players) = 3

\* -------------------------------------------------------------- C14
\* what getRole answers for every room and player id a caller may send
RoleAnswerKinds ==
    \A r \in DOMAIN rooms :
       \A p \in PlayerArgs(r) :
          LET a == RoleAnswer(r, p)
              hasRole == HasRoles(r) /\ p \in DOMAIN rooms[r].roles
          IN /\ a.status = 200
             /\ hasRole => a.body = [playerId |-> p, role |-> rooms[r].roles[p]]
             /\ ~hasRole => "error" \in DOMAIN a.body

\* C14: getRole on an existing room reports "not found", never an uncaught
\* failure, whenever the player has no assigned role, also before any
\* assignRoles; it returns the player's role exactly when the player is in
\* the role map.
C14_RoleNotFound ==
    [][last'.op = "role" => last'.status = 200 /\ RoleAnswerKinds]_vars

\* -------------------------------------------------------------- C18
\* C18: whenever a room has a role map, its recorded accuser is a member of
\* the roster and is the player whose role in the current map is Mantri.
C18_AccuserIsMantri ==
    \A r \in DOMAIN rooms :
       HasRoles(r) =>
          /\ "mantriId" \in DOMAIN rooms[r]
          /\ rooms[r].mantriId \in Roster(r)
          /\ rooms[r].roles[rooms[r].mantriId] = "Mantri"
          /\ \A p \in DOMAIN rooms[r].roles :
                rooms[r].roles[p] = "Mantri" => p = rooms[r].mantriId

\* roles were drawn again after the guess and the accuser moved with them
C18_Witness ==
    \E r \in DOMAIN rooms :
       /\ Guessed(r)
       /\ rooms[r].mantriId # rooms[r].guess.by

\* -------------------------------------------------------------- C19
\* C19: in a finished room the leaderboard has the same keys and values as
\* the round scores, one entry per roster player; a room that is not
\* finished has neither round scores nor a leaderboard.
C19_LeaderboardMirrorsScores ==
    \A r \in DOMAIN rooms :
       IF Finished(r)
       THEN /\ "scores" \in DOMAIN rooms[r]
            /\ "leaderboard" \in DOMAIN rooms[r]
            /\ DOMAIN rooms[r].scores = Roster(r)
            /\ rooms[r].leaderboard = rooms[r].scores
       ELSE /\ "scores" \notin DOMAIN rooms[r]
            /\ "leaderboard" \notin DOMAIN rooms[r]

\* a finished room whose leaderboard shows the stolen 800 was read
C19_Witness ==
    /\ last.op = "result"
    /\ last.status = 200
    /\ \E p \in DOMAIN last.body.leaderboard :
          /\ last.body.leaderboard[p] = 800
          /\ last.body.roundScores[last.body.guess.by] = 0

\* -------------------------------------------------------------- C20
\* C20: what getResult returns for a finished room is consistent: in the
\* returned role map the Raja holder's round score is 1000, the Sipahi
\* holder's 500, the Mantri and Chor holders' (800, 0) or (0, 800), and the
\* stored guess's accuser is the Mantri holder.
C20_ResultConsistent ==
    last.op = "result" /\ last.status = 200 =>
       LET roles == last.body.roles
           scores == last.body.roundScores
           holder(role) == CHOOSE p \in DOMAIN roles : roles[p] = role
       IN /\ scores[holder("Raja")] = 1000
          /\ scores[holder("Sipahi")] = 500
          /\ <<scores[holder("Mantri")], scores[holder("Chor")]>>
                \in {<<800, 0>>, <<0, 800>>}
          /\ last.body.guess.by = holder("Mantri")

\* -------------------------------------------------------------- C15
\* C15: with join requests running concurrently no roster ever has more
\* than four players, so of two concurrent joins of a room with three
\* players at most one succeeds.
C15_ConcurrentJoin ==
    \A r \in DOMAIN rooms : Len(rooms[r].players) <= ROOM_SIZE

\* -------------------------------------------------------------- C16
\* C16: with submitGuess requests running concurrently the scores of a room
\* are committed once: no player's cumulative total and no leaderboard
\* entry is larger than that player's round score.
C16_ConcurrentGuess ==
    \A r \in DOMAIN rooms :
       "scores" \in DOMAIN rooms[r] =>
          \A p \in DOMAIN rooms[r].scores :
             /\ players[p].totalScore <= rooms[r].scores[p]
             /\ rooms[r].leaderboard[p] <= rooms[r].scores[p]

\* -------------------------------------------------------------- C17
\* C17: a step changes at most one room, the room R a successful join,
\* assignRoles or submitGuess was applied to; no room disappears; a player's
\* record changes only by the successful submitGuess of that player's own
\* room, so players outside R, and R's players on a join, keep their name
\* and total.
C17_OtherRoomsUntouched ==
    [][/\ \A r \in DOMAIN rooms :
            /\ r \in DOMAIN rooms'
            /\ rooms'[r] # rooms[r] =>
                  /\ last'.op \in {"join", "assign", "guess"}
                  /\ Succeeded(last'.op, r)
       /\ \A p \in DOMAIN players :
            /\ p \in DOMAIN players'
            /\ players'[p].name = players[p].name
            /\ players'[p].roomId = players[p].roomId
            /\ players'[p] # players[p] =>
                  Succeeded("guess", players[p].roomId)]_vars

\* a submitGuess succeeded in one room while another room had a player
C17_Witness ==
    /\ last.op = "guess"
    /\ last.status = 200
    /\ \E r \in DOMAIN rooms :
          r # last.body.roomId /\ Len(rooms[r].players) >= 1

====
